---------------------------- MODULE Spec2Model ----------------------------
(***************************************************************************)
(* A model of PetroGuard's app.py: the provider adapter (fetch_all_news),  *)
(* the keyword detector (detect_harmful_words), the classifier reply       *)
(* parser and article enrichment (full_categorize), the two counter        *)
(* upserts (update_source_profile, update_keyword_trends) and the          *)
(* /api/analyze handler (api_analyze) run by concurrent requests.          *)
(*                                                                         *)
(* Python values.  A str is a tuple of one-character strings, so that the  *)
(* regular expressions and substring tests of the code are computed on     *)
(* characters.  None is the tuple <<"None">>, which is no str because its  *)
(* element is not one character.  A decoded JSON value is tagged:          *)
(* [t |-> "null"], [t |-> "str", v |-> chars], [t |-> "arr", v |-> tuple], *)
(* [t |-> "obj", v |-> function from key names to JSON values].            *)
(***************************************************************************)
EXTENDS Integers, Sequences, FiniteSets, TLC

VARIABLES
    (* the counter store, shared by all requests *)
    source_profiles,   \* source_name -> flag_count, for the rows that exist
    keyword_trends,    \* keyword -> count, for the rows that exist
    (* one /api/analyze request each *)
    pc,                \* where request r is in api_analyze
    query,             \* request.args.get('q', None)
    hits,              \* all_hits, then categorized_hits (the same list)
    idx,               \* position of the loop of line 264 (1-based)
    response,          \* what the handler returned: [status, body]
    (* history of a request, for stating the claims *)
    nFetch,            \* calls of requests.get made for r
    nClassify,         \* calls of fetch_from_gemini_sentiment_intent made for r
    nDb,               \* calls of update_source_profile / update_keyword_trends
    srcFailed,         \* positions whose update_source_profile raised inside
    kwFailed,          \* positions whose update_keyword_trends raised inside
    faults,            \* store failures injected so far
    (* one call of fetch_all_news, a provider per step *)
    f_pc, f_configs, f_i, f_all, f_resps,
    (* one call of full_categorize on one article *)
    c_pc, c_article, c_raw, c_out

storeVars == <<source_profiles, keyword_trends>>
reqVars   == <<pc, query, hits, idx, response>>
histVars  == <<nFetch, nClassify, nDb, srcFailed, kwFailed, faults>>
fetchVars == <<f_pc, f_configs, f_i, f_all, f_resps>>
catVars   == <<c_pc, c_article, c_raw, c_out>>
vars      == <<storeVars, reqVars, histVars, fetchVars, catVars>>

-----------------------------------------------------------------------------
(* Python str and None *)

None == <<"None">>

\* bool(x) of a str or None: "" and None are falsy
Truthy(x) == x # None /\ x # <<>>

\* x or d
Or(x, d) == IF Truthy(x) THEN x ELSE d

LowerOf ==
    [A |-> "a", B |-> "b", C |-> "c", D |-> "d", E |-> "e", F |-> "f",
     G |-> "g", H |-> "h", I |-> "i", J |-> "j", K |-> "k", L |-> "l",
     M |-> "m", N |-> "n", O |-> "o", P |-> "p", Q |-> "q", R |-> "r",
     S |-> "s", T |-> "t", U |-> "u", V |-> "v", W |-> "w", X |-> "x",
     Y |-> "y", Z |-> "z"]

UpperCase == DOMAIN LowerOf
LowerCase == {LowerOf[c] : c \in UpperCase}
Digits    == {"0", "1", "2", "3", "4", "5", "6", "7", "8", "9"}

LowerChar(c) == IF c \in UpperCase THEN LowerOf[c] ELSE c

\* s.lower()
Lower(s) == [i \in 1..Len(s) |-> LowerChar(s[i])]

\* [a-zA-Z0-9]
IsAlnum(c) == c \in UpperCase \cup LowerCase \cup Digits

\* \w of the re module
IsWordChar(c) == IsAlnum(c) \/ c = "_"

\* whitespace removed by str.strip()
IsSpace(c) == c \in {" ", "\n", "\t"}

\* s[i:i+n] = sub
MatchesAt(s, i, sub) ==
    /\ i >= 1
    /\ i + Len(sub) - 1 <= Len(s)
    /\ SubSeq(s, i, i + Len(sub) - 1) = sub

\* sub in s
Contains(s, sub) == \E i \in 1..(Len(s) + 1) : MatchesAt(s, i, sub)

\* s.startswith(prefix)
StartsWith(s, prefix) == MatchesAt(s, 1, prefix)

\* s.strip()
Strip(s) ==
    LET keep == {i \in 1..Len(s) : ~IsSpace(s[i])}
    IN  IF keep = {} THEN <<>>
        ELSE LET lo == CHOOSE i \in keep : \A j \in keep : i <= j
                 hi == CHOOSE i \in keep : \A j \in keep : j <= i
             IN  SubSeq(s, lo, hi)

\* \b at the gap before s[p] (p in 1..Len(s)+1)
WordBoundary(s, p) ==
    LET before == p > 1 /\ IsWordChar(s[p - 1])
        after  == p <= Len(s) /\ IsWordChar(s[p])
    IN  before # after

\* re.search(r'\bword\b', text, re.IGNORECASE) is not None
SearchWholeWord(word, text) ==
    \E i \in 1..Len(text) :
        /\ MatchesAt(Lower(text), i, Lower(word))
        /\ WordBoundary(text, i)
        /\ WordBoundary(text, i + Len(word))

\* the end of the longest run of [a-zA-Z0-9] that starts at s[i]
RECURSIVE AlnumRunEnd(_, _)
AlnumRunEnd(s, i) ==
    IF i + 1 <= Len(s) /\ IsAlnum(s[i + 1]) THEN AlnumRunEnd(s, i + 1) ELSE i

\* re.search(marker + r'([a-zA-Z0-9]+)', s): the group of the leftmost match,
\* or None when nothing matches
SearchLabel(marker, s) ==
    LET at == {i \in 1..Len(s) :
                  /\ MatchesAt(s, i, marker)
                  /\ i + Len(marker) <= Len(s)
                  /\ IsAlnum(s[i + Len(marker)])}
    IN  IF at = {} THEN None
        ELSE LET i == CHOOSE i \in at : \A j \in at : i <= j
                 b == i + Len(marker)
             IN  SubSeq(s, b, AlnumRunEnd(s, b))

\* the end of the line that holds s[i]: '.' matches anything but a newline
RECURSIVE LineEnd(_, _)
LineEnd(s, i) ==
    IF i <= Len(s) /\ s[i] # "\n" THEN LineEnd(s, i + 1) ELSE i - 1

\* re.search(marker + r'(.*)', s): the group of the leftmost match, or None
SearchRest(marker, s) ==
    LET at == {i \in 1..Len(s) : MatchesAt(s, i, marker)}
    IN  IF at = {} THEN None
        ELSE LET i == CHOOSE i \in at : \A j \in at : i <= j
                 b == i + Len(marker)
             IN  SubSeq(s, b, LineEnd(s, b))

\* the concatenation of a tuple of strs
RECURSIVE Join(_)
Join(ss) == IF ss = <<>> THEN <<>> ELSE Head(ss) \o Join(Tail(ss))

-----------------------------------------------------------------------------
(* The keyword detector *)

HARMFUL_KEYWORDS ==
    <<<<"s", "c", "a", "m">>,
      <<"f", "r", "a", "u", "d">>,
      <<"b", "o", "m", "b">>,
      <<"a", "t", "t", "a", "c", "k">>,
      <<"t", "e", "r", "r", "o", "r">>,
      <<"h", "a", "c", "k">>,
      <<"t", "h", "r", "e", "a", "t">>,
      <<"a", "r", "r", "e", "s", "t", "e", "d">>,
      <<"k", "i", "l", "l">>,
      <<"b", "a", "d">>,
      <<"m", "u", "r", "d", "e", "r">>,
      <<"s", "h", "o", "o", "t">>>>

\* detect_harmful_words(text), as the set its list holds
detect_harmful_words(text) ==
    IF Truthy(text)
    THEN {Lower(HARMFUL_KEYWORDS[n]) : n \in
             {m \in DOMAIN HARMFUL_KEYWORDS :
                 SearchWholeWord(HARMFUL_KEYWORDS[m], text)}}
    ELSE {}

-----------------------------------------------------------------------------
(* The classifier client and full_categorize *)

SENTIMENT_MARK == <<"S", "E", "N", "T", "I", "M", "E", "N", "T", "=">>
INTENT_MARK    == <<"I", "N", "T", "E", "N", "T", "=">>
REASON_MARK    == <<"R", "E", "A", "S", "O", "N", "=">>
HARMFUL_PREFIX == <<"h", "a", "r", "m", "f", "u", "l">>

\* What generate_content does for one prompt: it answers with a text, or raises.
\* fetch_from_gemini_sentiment_intent returns the stripped text, or an error
\* string built from the exception.
fetch_from_gemini_sentiment_intent(outcome) ==
    IF outcome.kind = "text"
    THEN Strip(outcome.text)
    ELSE <<"[", "G", "e", "m", "i", "n", "i", " ", "A", "P", "I", " ", "e", "r", "r", "o", "r", ":", " ">> \o outcome.text \o <<"]">>

\* line 210: both markers are in the reply
HasMarkers(gemini_result) ==
    /\ Contains(gemini_result, SENTIMENT_MARK)
    /\ Contains(gemini_result, INTENT_MARK)

\* ParseLabels with `or` in place of `and` at line 210 (the fault C5 excludes)
ParseLabelsEitherMarker(gemini_result) ==
    LET empty == [sentiment |-> <<>>, intent |-> <<>>, reason |-> <<>>]
        s == SearchLabel(SENTIMENT_MARK, gemini_result)
        i == SearchLabel(INTENT_MARK, gemini_result)
        r == SearchRest(REASON_MARK, gemini_result)
    IN  IF /\ ~Contains(gemini_result, SENTIMENT_MARK)
           /\ ~Contains(gemini_result, INTENT_MARK) THEN empty
        ELSE IF s = None THEN empty
        ELSE IF i = None THEN [empty EXCEPT !.sentiment = s]
        ELSE [sentiment |-> s, intent |-> i,
              reason |-> IF r = None THEN <<>> ELSE Strip(r)]

\* lines 207-217: the three labels.  A search that finds nothing makes .group
\* raise; the except clause keeps what was assigned before.
ParseLabels(gemini_result) ==
    LET empty == [sentiment |-> <<>>, intent |-> <<>>, reason |-> <<>>]
        s == SearchLabel(SENTIMENT_MARK, gemini_result)
        i == SearchLabel(INTENT_MARK, gemini_result)
        r == SearchRest(REASON_MARK, gemini_result)
    IN  IF ~HasMarkers(gemini_result) THEN empty
        ELSE IF s = None THEN empty
        ELSE IF i = None THEN [empty EXCEPT !.sentiment = s]
        ELSE [sentiment |-> s, intent |-> i,
              reason |-> IF r = None THEN <<>> ELSE Strip(r)]

\* line 219
IsHarmful(intent_label) == StartsWith(intent_label, HARMFUL_PREFIX)

\* lines 195-198: the harmful words found in the provider's tags
HarmfulInKeywords(keywords) ==
    {HARMFUL_KEYWORDS[n] : n \in
        {m \in DOMAIN HARMFUL_KEYWORDS :
            \E k \in DOMAIN keywords :
                Contains(Lower(keywords[k]), HARMFUL_KEYWORDS[m])}}

\* lines 193-199: harmful_words
HarmfulWords(article) ==
    detect_harmful_words(article.title)
        \cup detect_harmful_words(article.description)
        \cup HarmfulInKeywords(article.keywords)

\* lines 192-228: one article of full_categorize.  The prompt (the text and
\* the harmful words) goes to the classifier, whose answer is `outcome`.
CategorizeOne(article, outcome) ==
    LET gemini_result == fetch_from_gemini_sentiment_intent(outcome)
        labels == ParseLabels(gemini_result)
    IN  [source           |-> article.source,
         title            |-> article.title,
         description      |-> article.description,
         link             |-> article.link,
         pub_date         |-> article.pub_date,
         keywords         |-> article.keywords,
         api_type         |-> article.api_type,
         harmful          |-> IsHarmful(labels.intent),
         harmful_words    |-> HarmfulWords(article),
         gemini_sentiment |-> labels.sentiment,
         gemini_intent    |-> labels.intent,
         gemini_reason    |-> labels.reason,
         gemini_raw       |-> gemini_result]

\* full_categorize(articles), the classifier answering outcomes[n] for article n
full_categorize(articles, outcomes) ==
    [n \in DOMAIN articles |-> CategorizeOne(articles[n], outcomes[n])]

-----------------------------------------------------------------------------
(* Decoded JSON, and dict.get *)

JNull   == [t |-> "null"]
JStr(s) == [t |-> "str", v |-> s]
JArr(a) == [t |-> "arr", v |-> a]
JObj(f) == [t |-> "obj", v |-> f]

EmptyObj == [t |-> "obj", v |-> <<>>]

\* the Python value of a decoded str, null or list; a dict stays as it is
RECURSIVE Py(_)
Py(j) ==
    CASE j.t = "null" -> None
      [] j.t = "str"  -> j.v
      [] j.t = "arr"  -> [n \in DOMAIN j.v |-> Py(j.v[n])]
      [] OTHER        -> j

\* only a dict has .get: anything else raises AttributeError
HasGet(j) == j.t = "obj"

\* d.get(key, default), still JSON
Get(d, key, default) == IF key \in DOMAIN d.v THEN d.v[key] ELSE default

\* d.get(key), as a Python value (None when the key is missing)
GetPy(d, key) == IF key \in DOMAIN d.v THEN Py(d.v[key]) ELSE None

\* `for item in j`: null is not iterable; a str yields its characters and a
\* dict its keys, none of which has .get
Iterable(j) == j.t # "null"

ItemsOf(j) ==
    CASE j.t = "arr" -> j.v
      [] j.t = "str" -> [n \in DOMAIN j.v |-> JStr(<<j.v[n]>>)]
      [] j.t = "obj" -> [n \in 1..Cardinality(DOMAIN j.v) |-> JStr(<<"key">>)]
      [] OTHER       -> <<>>

-----------------------------------------------------------------------------
(* The provider adapter *)

API_CONFIGS ==
    <<[name |-> "NewsAPI",     type |-> "newsapi"],
      [name |-> "NewsData.io", type |-> "newsdata"],
      [name |-> "Wikipedia",   type |-> "wikipedia"]>>

WIKIPEDIA   == <<"W", "i", "k", "i", "p", "e", "d", "i", "a">>
NEWSDATA_IO == <<"N", "e", "w", "s", "D", "a", "t", "a", ".", "i", "o">>
NEWSAPI     == <<"N", "e", "w", "s", "A", "P", "I">>
NEWS        == <<"n", "e", "w", "s">>
WIKI_TYPE   == <<"w", "i", "k", "i", "p", "e", "d", "i", "a">>
SUCCESS     == <<"s", "u", "c", "c", "e", "s", "s">>
OK          == <<"o", "k">>
NONE_STR    == <<"N", "o", "n", "e">>

\* the constant head of the Wikipedia link, kept as one element: no code reads
\* the characters of a link
CURID_URL == <<"https://en.wikipedia.org/?curid=">>

\* an article as fetch_all_news builds it
Article(source, title, description, link, pub_date, keywords, api_type) ==
    [source |-> source, title |-> title, description |-> description,
     link |-> link, pub_date |-> pub_date, keywords |-> keywords,
     api_type |-> api_type]

\* re.sub("<.*?>", "", s) from s[i] on: the shortest "<...>" within a line
RECURSIVE StripTagsFrom(_, _)
StripTagsFrom(s, i) ==
    IF i > Len(s) THEN <<>>
    ELSE LET closes == {j \in (i + 1)..Len(s) :
                           /\ s[j] = ">"
                           /\ \A k \in (i + 1)..(j - 1) : s[k] # "\n"}
         IN  IF s[i] = "<" /\ closes # {}
             THEN StripTagsFrom(s, 1 + CHOOSE j \in closes :
                                          \A k \in closes : j <= k)
             ELSE <<s[i]>> \o StripTagsFrom(s, i + 1)

StripTags(s) == StripTagsFrom(s, 1)

\* str(x) of a str or None
Str(x) == IF x = None THEN NONE_STR ELSE x

\* line 138: one search result.  re.sub raises TypeError unless the snippet is
\* a str.
WikipediaItemRaises(item) ==
    \/ ~HasGet(item)
    \/ Get(item, "snippet", JStr(<<>>)).t # "str"

WikipediaArticle(item) ==
    Article(WIKIPEDIA, GetPy(item, "title"),
            StripTags(Get(item, "snippet", JStr(<<>>)).v),
            CURID_URL \o Str(GetPy(item, "pageid")), <<>>, <<>>, WIKI_TYPE)

\* line 142: one NewsData result
NewsDataItemRaises(item) == ~HasGet(item)

NewsDataArticle(item) ==
    Article(Or(GetPy(item, "source_id"), Or(GetPy(item, "source_name"), NEWSDATA_IO)),
            GetPy(item, "title"),
            Or(GetPy(item, "description"), <<>>),
            GetPy(item, "link"), GetPy(item, "pubDate"),
            Or(GetPy(item, "keywords"), <<>>), NEWS)

\* line 146: one NewsAPI article.  item.get("source", {}) must be a dict.
NewsApiItemRaises(item) ==
    \/ ~HasGet(item)
    \/ ~HasGet(Get(item, "source", EmptyObj))

NewsApiArticle(item) ==
    Article(Py(Get(Get(item, "source", EmptyObj), "name", JStr(NEWSAPI))),
            GetPy(item, "title"),
            Or(GetPy(item, "description"), <<>>),
            GetPy(item, "url"), GetPy(item, "publishedAt"), <<>>, NEWS)

Raise          == [r |-> "raise",    articles |-> <<>>]
Continue       == [r |-> "continue", articles |-> <<>>]
Extend(arts)   == [r |-> "extend",   articles |-> arts]

\* lines 136-138
NormalizeWikipedia(data) ==
    IF ~HasGet(data) THEN Raise
    ELSE LET q == Get(data, "query", EmptyObj)
         IN  IF ~HasGet(q) THEN Raise
             ELSE LET found == Get(q, "search", JArr(<<>>))
                      items == ItemsOf(found)
                  IN  IF ~Iterable(found) THEN Raise
                      ELSE IF \E n \in DOMAIN items : WikipediaItemRaises(items[n])
                      THEN Raise
                      ELSE Extend([n \in DOMAIN items |-> WikipediaArticle(items[n])])

\* lines 139-142
NormalizeNewsData(data) ==
    IF ~HasGet(data) THEN Raise
    ELSE IF GetPy(data, "status") # SUCCESS THEN Continue
    ELSE LET found == Get(data, "results", JArr(<<>>))
             items == ItemsOf(found)
         IN  IF ~Iterable(found) THEN Raise
             ELSE IF \E n \in DOMAIN items : NewsDataItemRaises(items[n])
             THEN Raise
             ELSE Extend([n \in DOMAIN items |-> NewsDataArticle(items[n])])

\* lines 143-146
NormalizeNewsApi(data) ==
    IF ~HasGet(data) THEN Raise
    ELSE IF GetPy(data, "status") # OK THEN Continue
    ELSE LET found == Get(data, "articles", JArr(<<>>))
             items == ItemsOf(found)
         IN  IF ~Iterable(found) THEN Raise
             ELSE IF \E n \in DOMAIN items : NewsApiItemRaises(items[n])
             THEN Raise
             ELSE Extend([n \in DOMAIN items |-> NewsApiArticle(items[n])])

\* lines 127-133: requests.get, raise_for_status and resp.json() are inside
\* the try; whatever they raise is caught
RequestFailed(resp) == resp.kind \in {"exc", "http_error", "bad_json"}

\* FetchStep with the request outside the try (the fault C1 excludes)
FetchStepUncaught(api, resp) ==
    IF RequestFailed(resp) THEN Raise
    ELSE IF api.type = "wikipedia" THEN NormalizeWikipedia(resp.data)
    ELSE IF api.type = "newsdata" THEN NormalizeNewsData(resp.data)
    ELSE NormalizeNewsApi(resp.data)

\* lines 116-149: one turn of the loop over the providers
FetchStep(api, resp) ==
    IF RequestFailed(resp) THEN Continue
    ELSE IF api.type = "wikipedia" THEN NormalizeWikipedia(resp.data)
    ELSE IF api.type = "newsdata" THEN NormalizeNewsData(resp.data)
    ELSE NormalizeNewsApi(resp.data)

\* fetch_all_news(api_configs, ...) from provider i on, resps[n] being what
\* provider n answers: [raised, all_articles]
RECURSIVE FetchFrom(_, _, _, _)
FetchFrom(api_configs, resps, i, all_articles) ==
    IF i > Len(api_configs) THEN [raised |-> FALSE, all_articles |-> all_articles]
    ELSE LET step == FetchStep(api_configs[i], resps[i])
         IN  IF step.r = "raise" THEN [raised |-> TRUE, all_articles |-> <<>>]
             ELSE FetchFrom(api_configs, resps, i + 1, all_articles \o step.articles)

fetch_all_news(api_configs, resps) == FetchFrom(api_configs, resps, 1, <<>>)

-----------------------------------------------------------------------------
(* The trend store.  A table is the function from the keys of its rows to *)
(* their counters.  last_seen, which nothing reads, is left out.          *)

UNKNOWN_SOURCE == <<"u", "n", "k", "n", "o", "w", "n", "_", "s", "o", "u", "r", "c", "e">>

\* Upsert as INSERT OR REPLACE: the row restarts at 1 (the fault C10 excludes)
UpsertReplace(table, key) ==
    IF key \in DOMAIN table
    THEN [table EXCEPT ![key] = 1]
    ELSE table @@ (key :> 1)

\* INSERT ... VALUES (key, 1) ON CONFLICT(key) DO UPDATE SET n = n + 1
Upsert(table, key) ==
    IF key \in DOMAIN table
    THEN [table EXCEPT ![key] = @ + 1]
    ELSE table @@ (key :> 1)

RECURSIVE UpsertAll(_, _)
UpsertAll(table, keys) ==
    IF keys = {} THEN table
    ELSE LET k == CHOOSE k \in keys : TRUE
         IN  UpsertAll(Upsert(table, k), keys \ {k})

\* update_source_profile as INSERT OR IGNORE: a row that exists keeps its
\* count (the fault C2 excludes)
update_source_profile_ignore(profiles, source_name, fails) ==
    LET name == IF ~Truthy(source_name) THEN UNKNOWN_SOURCE ELSE source_name
    IN  [table  |-> IF fails \/ name \in DOMAIN profiles THEN profiles
                    ELSE profiles @@ (name :> 1),
         raised |-> FALSE]

\* update_source_profile without lines 71-72 (the fault C8 excludes)
update_source_profile_raw_name(profiles, source_name, fails) ==
    [table  |-> IF fails THEN profiles ELSE Upsert(profiles, source_name),
     raised |-> FALSE]

\* update_source_profile(source_name) on the table `profiles`; `fails` says
\* that connect, execute or commit raises.  The except clause catches it, and
\* nothing is committed.  [the table after the call, whether the call raised]
update_source_profile(profiles, source_name, fails) ==
    LET name == IF ~Truthy(source_name) THEN UNKNOWN_SOURCE ELSE source_name
    IN  [table  |-> IF fails THEN profiles ELSE Upsert(profiles, name),
         raised |-> FALSE]

\* update_keyword_trends without its try/except (the fault C7 excludes)
update_keyword_trends_uncaught(trends, keywords, failAt) ==
    IF keywords = {} THEN [table |-> trends, raised |-> FALSE]
    ELSE [table  |-> IF failAt = 0 THEN UpsertAll(trends, keywords) ELSE trends,
          raised |-> failAt > 0]

\* update_keyword_trends(keywords) on the table `trends`; failAt = 0 when
\* nothing fails, n when the n-th statement raises (one past the last: the
\* commit).  The statements before it were never committed and are rolled
\* back when the connection goes.
update_keyword_trends(trends, keywords, failAt) ==
    IF keywords = {} THEN [table |-> trends, raised |-> FALSE]
    ELSE [table  |-> IF failAt = 0 THEN UpsertAll(trends, keywords) ELSE trends,
          raised |-> FALSE]

-----------------------------------------------------------------------------
(* api_analyze *)

\* line 250 as `if query is None` (the fault C4 excludes)
QueryIsNone(q) == q = None

\* line 250: `if not query`
QueryMissing(q) == ~Truthy(q)

\* line 265 as `if article.get('harmful_words')` (the fault C3 excludes)
HasHarmfulWords(article) == article.harmful_words # {}

\* line 265: `if article.get('harmful')`
ShouldPersist(article) == article.harmful

NoResponse == [status |-> 0, body |-> <<>>]
BadRequest == [status |-> 400,
               body |-> [error |-> "A 'q' (query) parameter is required"]]
\* what Flask answers when the handler raises
ServerError == [status |-> 500, body |-> <<>>]
Json(articles) == [status |-> 200, body |-> articles]

\* the requests.get calls fetch_all_news makes: one per provider, up to the
\* one whose answer makes it raise
RECURSIVE FetchCalls(_, _, _)
FetchCalls(api_configs, resps, i) ==
    IF i > Len(api_configs) THEN 0
    ELSE IF FetchStep(api_configs[i], resps[i]).r = "raise" THEN 1
    ELSE 1 + FetchCalls(api_configs, resps, i + 1)

-----------------------------------------------------------------------------
(* Inputs of the checks of full_categorize *)

MaxReplyTokens == 4
MaxTextTokens  == 2

\* the tuples of at most n elements of S
RECURSIVE TokenSeqs(_, _)
TokenSeqs(S, n) ==
    IF n = 0 THEN {<<>>}
    ELSE LET shorter == TokenSeqs(S, n - 1)
         IN  shorter \cup {Append(p, t) : p \in shorter, t \in S}

ReplyTokens ==
    {SENTIMENT_MARK, INTENT_MARK, REASON_MARK,
     <<"n", "e", "u", "t", "r", "a", "l">>, <<"h", "a", "r", "m", "f", "u", "l", "2">>, <<"h", "a", "r", "m", "l", "e", "s", "s", "1">>,
     <<" ">>, <<"\n">>}

ExampleReplies ==
    {<<"S", "E", "N", "T", "I", "M", "E", "N", "T", "=", "n", "e", "u", "t", "r", "a", "l", " ", "I", "N", "T", "E", "N", "T", "=", "h", "a", "r", "m", "l", "e", "s", "s", "1", " ", "R", "E", "A", "S", "O", "N", "=", "n", "o", " ", "i", "s", "s", "u", "e", " ", "f", "o", "u", "n", "d">>,
     <<"S", "E", "N", "T", "I", "M", "E", "N", "T", "=", "n", "e", "g", "a", "t", "i", "v", "e", "2", " ", "I", "N", "T", "E", "N", "T", "=", "h", "a", "r", "m", "f", "u", "l", "1", " ", "R", "E", "A", "S", "O", "N", "=", " ", "s", "c", "a", "m", "\n">>,
     <<"S", "e", "n", "t", "i", "m", "e", "n", "t", "=", "n", "e", "g", "a", "t", "i", "v", "e", "1", " ", "I", "n", "t", "e", "n", "t", "=", "h", "a", "r", "m", "f", "u", "l", "1">>}

ReplyTexts ==
    {Join(ts) : ts \in TokenSeqs(ReplyTokens, MaxReplyTokens)} \cup ExampleReplies

\* what the classifier call can do: answer any of the texts, or raise with one
\* of them as the exception's message
ClassifierOutcomes == [kind : {"text", "error"}, text : ReplyTexts]

TextTokens ==
    {<<"s", "c", "a", "m">>, <<"m", "e", "r">>, <<"B", "A", "D">>, <<"f", "r", "a", "u", "d">>,
     <<" ">>, <<"_">>}

Texts(n) == {Join(ts) : ts \in TokenSeqs(TextTokens, n)}

TagLists ==
    {<<>>} \cup {<<t>> : t \in Texts(MaxTextTokens)}
           \cup {<<<<"c", "r", "i", "m", "e">>, <<"F", "r", "a", "u", "d", "s", "t", "e", "r">>>>}

PlainArticle ==
    Article(<<"b", "b", "c">>, <<"B", "o", "m", "b", " ", "s", "c", "a", "r", "e">>, <<>>, None, None, <<>>, NEWS)

HarmlessOutcome ==
    [kind |-> "text",
     text |-> <<"S", "E", "N", "T", "I", "M", "E", "N", "T", "=", "n", "e", "u", "t", "r", "a", "l", " ", "I", "N", "T", "E", "N", "T", "=", "h", "a", "r", "m", "l", "e", "s", "s", "1", " ", "R", "E", "A", "S", "O", "N", "=", "o", "k">>]

-----------------------------------------------------------------------------
(* What the providers can answer *)

MaxItems == 2

Failures == {[kind |-> "exc"], [kind |-> "http_error"], [kind |-> "bad_json"]}

JsonResp(d) == [kind |-> "json", data |-> d]

A_named ==
    JObj([source |-> JObj([name |-> JStr(<<"B", "B", "C">>)]),
          title |-> JStr(<<"B", "o", "m", "b", " ", "t", "h", "r", "e", "a", "t">>), description |-> JNull,
          url |-> JStr(<<"u", "1">>), publishedAt |-> JStr(<<"t", "1">>)])
A_emptyname ==
    JObj([source |-> JObj([name |-> JStr(<<>>)]),
          title |-> JStr(<<"S", "c", "a", "m", " ", "a", "t", "t", "a", "c", "k">>)])
A_nullname ==
    JObj([source |-> JObj([name |-> JNull]), title |-> JStr(<<"H", "a", "c", "k">>)])
A_nullsource ==
    JObj([source |-> JNull, title |-> JStr(<<"H", "a", "c", "k">>)])
A_bare == JObj([title |-> JStr(<<"O", "i", "l">>)])

D_full ==
    JObj([source_id |-> JStr(<<"b", "b", "c">>), title |-> JStr(<<"F", "r", "a", "u", "d", " ", "c", "a", "s", "e">>),
          description |-> JStr(<<"a", " ", "s", "c", "a", "m", "m", "e", "r">>),
          link |-> JStr(<<"u", "2">>), pubDate |-> JStr(<<"t", "2">>),
          keywords |-> JArr(<<JStr(<<"s", "c", "a", "m", "m", "e", "r">>)>>)])
D_named ==
    JObj([source_id |-> JNull, source_name |-> JStr(<<"c", "n", "n">>),
          title |-> JNull, keywords |-> JNull])
D_bare == EmptyObj
D_notdict == JStr(<<"x">>)

W_full ==
    JObj([title |-> JStr(<<"S", "c", "a", "m">>),
          snippet |-> JStr(<<"<", "b", ">", "s", "c", "a", "m", "<", "/", "b", ">", " ", "a", "l", "e", "r", "t">>),
          pageid |-> JStr(<<"4", "2">>)])
W_bare == JObj([title |-> JStr(<<"A", "t", "t", "a", "c", "k">>)])
W_nullsnippet == JObj([title |-> JStr(<<"K", "i", "l", "l">>), snippet |-> JNull])

NewsApiData(items)   == JObj([status |-> JStr(OK), articles |-> JArr(items)])
NewsDataData(items)  == JObj([status |-> JStr(SUCCESS), results |-> JArr(items)])
WikipediaData(items) == JObj([query |-> JObj([search |-> JArr(items)])])

ErrorStatus == JObj([status |-> JStr(<<"e", "r", "r", "o", "r">>)])
NotAnObject == JArr(<<>>)

\* every answer of a provider of the given kind that the call is checked on
Answers(type) ==
    Failures \cup
    {JsonResp(d) : d \in
        IF type = "wikipedia"
        THEN {WikipediaData(items) :
                 items \in TokenSeqs({W_full, W_nullsnippet}, MaxItems)}
             \cup {WikipediaData(<<W_bare>>), EmptyObj, NotAnObject,
                   JObj([query |-> JNull]),
                   JObj([query |-> JObj([search |-> JNull])])}
        ELSE IF type = "newsdata"
        THEN {NewsDataData(items) :
                 items \in TokenSeqs({D_full, D_notdict}, MaxItems)}
             \cup {NewsDataData(<<D_named>>), NewsDataData(<<D_bare>>),
                   ErrorStatus, NotAnObject,
                   JObj([status |-> JStr(SUCCESS), results |-> JNull])}
        ELSE {NewsApiData(items) :
                 items \in TokenSeqs({A_named, A_nullsource}, MaxItems)}
             \cup {NewsApiData(<<A_emptyname>>), NewsApiData(<<A_nullname>>),
                   NewsApiData(<<A_bare>>), ErrorStatus, NotAnObject,
                   JObj([status |-> JStr(OK)])}}

ConfigLists ==
    {API_CONFIGS,
     <<API_CONFIGS[3], API_CONFIGS[2], API_CONFIGS[1]>>,
     <<API_CONFIGS[2], API_CONFIGS[3], API_CONFIGS[1]>>}

-----------------------------------------------------------------------------
(* What a request of the handler model meets *)

Requests == {1, 2}

MaxDbFaults == 2

Queries == {None, <<>>, <<"o", "i", "l">>}

\* what the three providers of API_CONFIGS (NewsAPI, NewsData.io, Wikipedia)
\* answer to one request
AnalyzeAnswers ==
    {<<[kind |-> "http_error"], [kind |-> "exc"], [kind |-> "exc"]>>,
     <<JsonResp(NewsApiData(<<A_nullname>>)), [kind |-> "exc"], [kind |-> "exc"]>>,
     <<JsonResp(NewsApiData(<<A_emptyname>>)), JsonResp(NewsDataData(<<D_full>>)),
       [kind |-> "bad_json"]>>,
     <<JsonResp(ErrorStatus), JsonResp(NewsDataData(<<D_full>>)),
       JsonResp(WikipediaData(<<W_full>>))>>,
     <<JsonResp(NewsApiData(<<A_nullsource>>)), JsonResp(NewsDataData(<<D_full>>)),
       JsonResp(WikipediaData(<<W_full>>))>>}

HarmfulOutcome ==
    [kind |-> "text",
     text |-> <<"S", "E", "N", "T", "I", "M", "E", "N", "T", "=", "n", "e", "g", "a", "t", "i", "v", "e", "2", " ", "I", "N", "T", "E", "N", "T", "=", "h", "a", "r", "m", "f", "u", "l", "1", " ", "R", "E", "A", "S", "O", "N", "=", "s", "c", "a", "m">>]

AnalyzeOutcomes == {HarmfulOutcome, HarmlessOutcome}

-----------------------------------------------------------------------------
(* Initial states *)

InitStore ==
    /\ source_profiles = <<>>
    /\ keyword_trends = <<>>

InitRequests ==
    /\ pc = [r \in Requests |-> "start"]
    /\ query = [r \in Requests |-> None]
    /\ hits = [r \in Requests |-> <<>>]
    /\ idx = [r \in Requests |-> 1]
    /\ response = [r \in Requests |-> NoResponse]
    /\ nFetch = [r \in Requests |-> 0]
    /\ nClassify = [r \in Requests |-> 0]
    /\ nDb = [r \in Requests |-> 0]
    /\ srcFailed = [r \in Requests |-> {}]
    /\ kwFailed = [r \in Requests |-> {}]
    /\ faults = 0

NoFetchCall ==
    /\ f_pc = "idle"
    /\ f_configs = API_CONFIGS
    /\ f_i = 1
    /\ f_all = <<>>
    /\ f_resps = <<>>

NoCategorizeCall ==
    /\ c_pc = "idle"
    /\ c_article = PlainArticle
    /\ c_raw = HarmlessOutcome
    /\ c_out = PlainArticle

-----------------------------------------------------------------------------
(* api_analyze, one request r *)

\* lines 249-251
Receive(r) ==
    /\ pc[r] = "start"
    /\ \E q \in Queries :
          /\ query' = [query EXCEPT ![r] = q]
          /\ IF QueryMissing(q)
             THEN /\ response' = [response EXCEPT ![r] = BadRequest]
                  /\ pc' = [pc EXCEPT ![r] = "done"]
             ELSE /\ response' = response
                  /\ pc' = [pc EXCEPT ![r] = "fetch"]
    /\ UNCHANGED <<hits, idx, storeVars, histVars, fetchVars, catVars>>

\* line 256
Fetch(r) ==
    /\ pc[r] = "fetch"
    /\ \E resps \in AnalyzeAnswers :
          LET out == fetch_all_news(API_CONFIGS, resps)
          IN  /\ nFetch' = [nFetch EXCEPT ![r] = FetchCalls(API_CONFIGS, resps, 1)]
              /\ IF out.raised
                 THEN /\ response' = [response EXCEPT ![r] = ServerError]
                      /\ pc' = [pc EXCEPT ![r] = "raised"]
                      /\ hits' = hits
                 ELSE /\ response' = response
                      /\ pc' = [pc EXCEPT ![r] = "categorize"]
                      /\ hits' = [hits EXCEPT ![r] = out.all_articles]
    /\ UNCHANGED <<query, idx, storeVars, nClassify, nDb, srcFailed, kwFailed,
                   faults, fetchVars, catVars>>

\* line 259
Classify(r) ==
    /\ pc[r] = "categorize"
    /\ \E outcomes \in [DOMAIN hits[r] -> AnalyzeOutcomes] :
          hits' = [hits EXCEPT ![r] = full_categorize(hits[r], outcomes)]
    /\ nClassify' = [nClassify EXCEPT ![r] = Len(hits[r])]
    /\ pc' = [pc EXCEPT ![r] = "persist"]
    /\ idx' = [idx EXCEPT ![r] = 1]
    /\ UNCHANGED <<query, response, storeVars, nFetch, nDb, srcFailed, kwFailed,
                   faults, fetchVars, catVars>>

\* lines 264-265: an article that is not harmful is passed over
SkipArticle(r) ==
    /\ pc[r] = "persist"
    /\ idx[r] <= Len(hits[r])
    /\ ~ShouldPersist(hits[r][idx[r]])
    /\ idx' = [idx EXCEPT ![r] = @ + 1]
    /\ UNCHANGED <<pc, query, hits, response, storeVars, histVars, fetchVars,
                   catVars>>

\* line 267.  The statement is one atomic upsert of the store.
UpdateSourceProfile(r) ==
    /\ pc[r] = "persist"
    /\ idx[r] <= Len(hits[r])
    /\ ShouldPersist(hits[r][idx[r]])
    /\ \E fails \in BOOLEAN :
          LET out == update_source_profile(source_profiles,
                                           hits[r][idx[r]].source, fails)
          IN  /\ fails => faults < MaxDbFaults
              /\ faults' = IF fails THEN faults + 1 ELSE faults
              /\ srcFailed' = IF fails
                              THEN [srcFailed EXCEPT ![r] = @ \cup {idx[r]}]
                              ELSE srcFailed
              /\ source_profiles' = out.table
              /\ IF out.raised
                 THEN /\ pc' = [pc EXCEPT ![r] = "raised"]
                      /\ response' = [response EXCEPT ![r] = ServerError]
                 ELSE /\ pc' = [pc EXCEPT ![r] = "persist_kw"]
                      /\ response' = response
    /\ nDb' = [nDb EXCEPT ![r] = @ + 1]
    /\ UNCHANGED <<query, hits, idx, keyword_trends, nFetch, nClassify, kwFailed,
                   fetchVars, catVars>>

\* line 270.  The statements of one call are one transaction of the store.
UpdateKeywordTrends(r) ==
    /\ pc[r] = "persist_kw"
    /\ LET keywords == hits[r][idx[r]].harmful_words
       IN  \E failAt \in 0..(Cardinality(keywords) + 1) :
             LET out == update_keyword_trends(keyword_trends, keywords, failAt)
                 fails == failAt > 0 /\ keywords # {}
             IN  /\ failAt > 0 => keywords # {} /\ faults < MaxDbFaults
                 /\ faults' = IF fails THEN faults + 1 ELSE faults
                 /\ kwFailed' = IF fails
                                THEN [kwFailed EXCEPT ![r] = @ \cup {idx[r]}]
                                ELSE kwFailed
                 /\ keyword_trends' = out.table
                 /\ IF out.raised
                    THEN /\ pc' = [pc EXCEPT ![r] = "raised"]
                         /\ response' = [response EXCEPT ![r] = ServerError]
                         /\ idx' = idx
                    ELSE /\ pc' = [pc EXCEPT ![r] = "persist"]
                         /\ response' = response
                         /\ idx' = [idx EXCEPT ![r] = @ + 1]
    /\ nDb' = [nDb EXCEPT ![r] = @ + 1]
    /\ UNCHANGED <<query, hits, source_profiles, nFetch, nClassify, srcFailed,
                   fetchVars, catVars>>

\* line 273
Respond(r) ==
    /\ pc[r] = "persist"
    /\ idx[r] > Len(hits[r])
    /\ response' = [response EXCEPT ![r] = Json(hits[r])]
    /\ pc' = [pc EXCEPT ![r] = "done"]
    /\ UNCHANGED <<query, hits, idx, storeVars, histVars, fetchVars, catVars>>

Init == InitStore /\ InitRequests /\ NoFetchCall /\ NoCategorizeCall

Next ==
    \E r \in Requests :
        \/ Receive(r)
        \/ Fetch(r)
        \/ Classify(r)
        \/ SkipArticle(r)
        \/ UpdateSourceProfile(r)
        \/ UpdateKeywordTrends(r)
        \/ Respond(r)

Spec == Init /\ [][Next]_vars

-----------------------------------------------------------------------------
(* One call of fetch_all_news, a provider per step *)

InitFetch ==
    /\ f_pc = "loop"
    /\ f_configs \in ConfigLists
    /\ f_i = 1
    /\ f_all = <<>>
    /\ f_resps = <<>>

\* lines 116-149: provider f_i answers resp
FetchProvider ==
    /\ f_pc = "loop"
    /\ f_i <= Len(f_configs)
    /\ \E resp \in Answers(f_configs[f_i].type) :
          LET step == FetchStep(f_configs[f_i], resp)
          IN  /\ f_resps' = Append(f_resps, resp)
              /\ IF step.r = "raise"
                 THEN /\ f_pc' = "raised"
                      /\ UNCHANGED <<f_i, f_all>>
                 ELSE /\ f_pc' = f_pc
                      /\ f_i' = f_i + 1
                      /\ f_all' = f_all \o step.articles
    /\ UNCHANGED <<f_configs, storeVars, reqVars, histVars, catVars>>

\* line 152
FetchReturn ==
    /\ f_pc = "loop"
    /\ f_i > Len(f_configs)
    /\ f_pc' = "done"
    /\ UNCHANGED <<f_configs, f_i, f_all, f_resps, storeVars, reqVars, histVars,
                   catVars>>

NextFetch == FetchProvider \/ FetchReturn

FetchInit == InitStore /\ InitRequests /\ InitFetch /\ NoCategorizeCall

SpecFetch == FetchInit /\ [][NextFetch]_vars

-----------------------------------------------------------------------------
(* One call of full_categorize on one article *)

InitParse ==
    /\ c_pc = "ready"
    /\ c_article = PlainArticle
    /\ c_raw \in ClassifierOutcomes
    /\ c_out = c_article

InitDetect ==
    /\ c_pc = "ready"
    /\ c_article \in
          {Article(<<"b", "b", "c">>, title, description, None, None, keywords, NEWS) :
              title \in Texts(MaxTextTokens) \cup {None},
              description \in Texts(1) \cup {None},
              keywords \in TagLists}
    /\ c_raw = HarmlessOutcome
    /\ c_out = c_article

Categorize ==
    /\ c_pc = "ready"
    /\ c_out' = full_categorize(<<c_article>>, <<c_raw>>)[1]
    /\ c_pc' = "done"
    /\ UNCHANGED <<c_article, c_raw, storeVars, reqVars, histVars, fetchVars>>

NextCategorize == Categorize

ParseInit == InitStore /\ InitRequests /\ NoFetchCall /\ InitParse

SpecParse == ParseInit /\ [][NextCategorize]_vars

DetectInit == InitStore /\ InitRequests /\ NoFetchCall /\ InitDetect

SpecDetect == DetectInit /\ [][NextCategorize]_vars

-----------------------------------------------------------------------------
(* Properties of fetch_all_news *)

\* the decoded answer has the shape the provider documents: objects where the
\* code calls .get, lists where it iterates, a str snippet
ShapedItems(j, ItemOk(_)) ==
    /\ j.t = "arr"
    /\ \A n \in DOMAIN j.v : j.v[n].t = "obj" /\ ItemOk(j.v[n])

SourceOk(item)  == "source" \notin DOMAIN item.v \/ item.v.source.t = "obj"
SnippetOk(item) == "snippet" \notin DOMAIN item.v \/ item.v.snippet.t = "str"
AnyItem(item)   == TRUE

WellShaped(type, data) ==
    /\ data.t = "obj"
    /\ IF type = "wikipedia"
       THEN "query" \in DOMAIN data.v =>
               /\ data.v.query.t = "obj"
               /\ "search" \in DOMAIN data.v.query.v =>
                      ShapedItems(data.v.query.v.search, SnippetOk)
       ELSE IF type = "newsdata"
       THEN "results" \in DOMAIN data.v => ShapedItems(data.v.results, AnyItem)
       ELSE "articles" \in DOMAIN data.v => ShapedItems(data.v.articles, SourceOk)

\* the articles provider n of the call contributes: none when its request
\* failed, else those of its answer
Contribution(n) ==
    IF RequestFailed(f_resps[n]) THEN <<>>
    ELSE FetchStep(f_configs[n], f_resps[n]).articles

FetchEnded == f_pc \in {"done", "raised"}

\* C1: when every provider of the list either fails in its request (transport
\* exception, non-success status, undecodable body) or answers a well-shaped
\* payload, fetch_all_news returns, and its result is the articles of the
\* answering providers, in the order of the list.
C1_FailedProviderDoesNotHideOthers ==
    (/\ FetchEnded
     /\ \A n \in DOMAIN f_resps :
           \/ RequestFailed(f_resps[n])
           \/ WellShaped(f_configs[n].type, f_resps[n].data))
    => /\ f_pc = "done"
       /\ f_all = Join([n \in DOMAIN f_resps |-> Contribution(n)])

\* a provider failed between two that contributed articles
C1_Witness ==
    /\ f_pc = "done"
    /\ RequestFailed(f_resps[2])
    /\ Contribution(1) # <<>>
    /\ Contribution(3) # <<>>
    /\ f_all = Contribution(1) \o Contribution(3)

\* C6: no decoded answer, whatever its shape, makes fetch_all_news raise.
C6_ShapeErrorNeverRaises == f_pc # "raised"

-----------------------------------------------------------------------------
(* Properties of full_categorize *)

\* C5: a reply without "SENTIMENT=" or without "INTENT=" gives empty sentiment,
\* intent and reason and harmful = false; and harmful is true exactly when the
\* parsed intent starts with "harmful".
C5_MissingMarkerGivesEmptyLabels ==
    c_pc = "done" =>
        /\ (\/ ~Contains(c_out.gemini_raw, SENTIMENT_MARK)
            \/ ~Contains(c_out.gemini_raw, INTENT_MARK))
           => /\ c_out.gemini_sentiment = <<>>
              /\ c_out.gemini_intent = <<>>
              /\ c_out.gemini_reason = <<>>
              /\ c_out.harmful = FALSE
        /\ c_out.harmful = StartsWith(c_out.gemini_intent, HARMFUL_PREFIX)

\* a reply with a sentiment label after its marker, and no intent marker
C5_Witness ==
    /\ c_pc = "done"
    /\ SearchLabel(SENTIMENT_MARK, c_out.gemini_raw) # None
    /\ ~Contains(c_out.gemini_raw, INTENT_MARK)
    /\ c_out.gemini_sentiment = <<>>

\* C9: harmful_words is the union of the keyword detector's results on the
\* title, on the description and on each tag.
C9_HarmfulWordsAreWholeWords ==
    c_pc = "done" =>
        c_out.harmful_words =
            detect_harmful_words(c_article.title)
                \cup detect_harmful_words(c_article.description)
                \cup UNION {detect_harmful_words(c_article.keywords[k]) :
                               k \in DOMAIN c_article.keywords}

-----------------------------------------------------------------------------
(* Properties of api_analyze and the trend store *)

Finished(r) == pc[r] \in {"done", "raised"}

\* the request's answer went through classification
Classified(r) == pc[r] \in {"persist", "persist_kw", "done"} /\ Truthy(query[r])

\* the positions of r's articles for which update_source_profile was called,
\* and those for which update_keyword_trends was called
SourceCalled(r) ==
    {i \in DOMAIN hits[r] :
        /\ Classified(r)
        /\ i < idx[r] \/ (i = idx[r] /\ pc[r] = "persist_kw")
        /\ hits[r][i].harmful}
KeywordsCalled(r) ==
    {i \in DOMAIN hits[r] : Classified(r) /\ i < idx[r] /\ hits[r][i].harmful}

\* the positions of r's articles classified harmful
HarmfulAt(r) == {i \in DOMAIN hits[r] : Classified(r) /\ hits[r][i].harmful}

\* the row key of a source name: the sentinel for an empty or absent name
SourceKey(source) == IF source = None \/ source = <<>> THEN UNKNOWN_SOURCE ELSE source

CountIn(table, key) == IF key \in DOMAIN table THEN table[key] ELSE 0

\* the pairs <<r, i>> with i in At(r)
Pairs(At(_)) == UNION {{<<r, i>> : i \in At(r)} : r \in Requests}

AllSources ==
    DOMAIN source_profiles \cup {None, <<>>, UNKNOWN_SOURCE}
        \cup {hits[p[1]][p[2]].source : p \in Pairs(LAMBDA r : DOMAIN hits[r])}

AllKeywords ==
    DOMAIN keyword_trends \cup {HARMFUL_KEYWORDS[n] : n \in DOMAIN HARMFUL_KEYWORDS}

\* the harmful articles of source key k among the positions At(r)
OfSource(k, At(_)) ==
    {p \in Pairs(At) : SourceKey(hits[p[1]][p[2]].source) = k}

\* the harmful articles carrying keyword w among the positions At(r)
Carrying(w, At(_)) ==
    {p \in Pairs(At) : w \in hits[p[1]][p[2]].harmful_words}

SourceWritten(r)   == SourceCalled(r) \ srcFailed[r]
KeywordsWritten(r) == KeywordsCalled(r) \ kwFailed[r]

\* C2 as stated: once the requests have ended, the flag_count of every source
\* is the number of their articles from it classified harmful.
C2_FlagCountIsHarmfulCount ==
    (\A r \in Requests : Finished(r)) =>
        \A k \in AllSources :
            CountIn(source_profiles, k) = Cardinality(OfSource(k, HarmfulAt))

\* C2 amended: at every moment the flag_count of every source is the number of
\* harmful articles from it whose update_source_profile call completed without
\* raising (a row exists exactly when that number is positive), and no step
\* lowers a flag_count or removes a row.
C2_FlagCountIsCompletedWrites ==
    /\ [](\A k \in AllSources :
            /\ CountIn(source_profiles, k) = Cardinality(OfSource(k, SourceWritten))
            /\ k \in DOMAIN source_profiles => source_profiles[k] >= 1)
    /\ [][\A k \in DOMAIN source_profiles :
            CountIn(source_profiles', k) >= source_profiles[k]]_vars

\* a source flagged by both requests: its row was created with 1, then raised
C2_Witness ==
    /\ \A r \in Requests : pc[r] = "done"
    /\ \E k \in DOMAIN source_profiles :
          /\ source_profiles[k] = 2
          /\ \A r \in Requests : \E i \in SourceWritten(r) :
                SourceKey(hits[r][i].source) = k

\* request r takes a step while at an article whose intent is not harmful
AtHarmlessArticle(r) ==
    /\ pc[r] \in {"persist", "persist_kw"}
    /\ idx[r] <= Len(hits[r])
    /\ ~StartsWith(hits[r][idx[r]].gemini_intent, HARMFUL_PREFIX)

Steps(r) == pc'[r] # pc[r] \/ idx'[r] # idx[r]

\* C3: the step of a request over an article whose parsed intent does not
\* start with "harmful" calls neither update function and leaves both tables
\* as they are.
C3_HarmlessArticleWritesNothing ==
    [][\A r \in Requests :
          (AtHarmlessArticle(r) /\ Steps(r)) =>
              /\ nDb'[r] = nDb[r]
              /\ idx'[r] = idx[r] + 1
              /\ UNCHANGED storeVars]_vars

\* a request passed over a harmless article that has harmful words
C3_Witness ==
    \E r \in Requests :
        /\ pc[r] = "persist"
        /\ idx[r] = 2
        /\ ~hits[r][1].harmful
        /\ hits[r][1].harmful_words # {}
        /\ nDb[r] = 0

\* C4: a request whose q is absent or empty is answered 400 with an "error"
\* key, and has fetched no provider, called no classifier and made no call of
\* the store.
C4_MissingQueryShortCircuits ==
    \A r \in Requests :
        (pc[r] # "start" /\ (query[r] = None \/ query[r] = <<>>)) =>
            /\ pc[r] = "done"
            /\ response[r].status = 400
            /\ "error" \in DOMAIN response[r].body
            /\ nFetch[r] = 0
            /\ nClassify[r] = 0
            /\ nDb[r] = 0
            /\ hits[r] = <<>>

\* an empty q answered 400 while the other request has written to the store
C4_Witness ==
    \E r \in Requests :
        /\ query[r] = <<>>
        /\ response[r].status = 400
        /\ source_profiles # <<>>

\* C7: a request past classification never raises; it calls both update
\* functions for each harmful article whatever failed before; its list of
\* articles stays as classified; and it answers 200 with that list.
C7_StoreFailureKeepsResponse ==
    /\ [](\A r \in Requests :
            /\ (pc[r] = "done" /\ Truthy(query[r])) =>
                   /\ response[r] = Json(hits[r])
                   /\ nDb[r] = 2 * Cardinality(HarmfulAt(r))
            /\ pc[r] = "raised" => nDb[r] = 0)
    /\ [][\A r \in Requests :
            pc[r] \in {"persist", "persist_kw"} =>
                /\ hits'[r] = hits[r]
                /\ pc'[r] # "raised"]_vars

\* a request answered 200 whose first harmful article lost its source write
\* and whose later article was written
C7_Witness ==
    \E r \in Requests :
        /\ pc[r] = "done"
        /\ response[r].status = 200
        /\ 1 \in srcFailed[r]
        /\ 2 \in SourceWritten(r)
        /\ kwFailed[r] # {}

\* request r makes its update_source_profile call for an article whose source
\* is empty or None
FlagsNamelessSource(r) ==
    /\ pc[r] = "persist"
    /\ nDb'[r] = nDb[r] + 1
    /\ hits[r][idx[r]].harmful
    /\ hits[r][idx[r]].source = None \/ hits[r][idx[r]].source = <<>>

\* C8: the flag of a harmful article whose source is empty or None goes to the
\* row "unknown_source" and touches no other row: that row gains one unless
\* the call failed inside, and every other row is as before.
C8_NamelessSourceIsUnknownSource ==
    [][\A r \in Requests :
          FlagsNamelessSource(r) =>
              /\ \A k \in (DOMAIN source_profiles \cup DOMAIN source_profiles')
                           \ {UNKNOWN_SOURCE} :
                    CountIn(source_profiles', k) = CountIn(source_profiles, k)
              /\ CountIn(source_profiles', UNKNOWN_SOURCE) =
                    CountIn(source_profiles, UNKNOWN_SOURCE)
                        + (IF idx[r] \in srcFailed'[r] THEN 0 ELSE 1)]_vars

\* both an empty and a None source were flagged and counted
C8_Witness ==
    /\ CountIn(source_profiles, UNKNOWN_SOURCE) = 2
    /\ \E r \in Requests : \E i \in SourceWritten(r) : hits[r][i].source = None
    /\ \E r \in Requests : \E i \in SourceWritten(r) : hits[r][i].source = <<>>

\* C10 as stated: after both requests, every source's flag_count is the number
\* of their harmful articles from it, and every keyword's count the number of
\* their harmful articles carrying it.
C10_NoUpdateLost ==
    (\A r \in Requests : Finished(r)) =>
        /\ \A k \in AllSources :
              CountIn(source_profiles, k) = Cardinality(OfSource(k, HarmfulAt))
        /\ \A w \in AllKeywords :
              CountIn(keyword_trends, w) = Cardinality(Carrying(w, HarmfulAt))

\* C10 amended: under every interleaving, both counters hold exactly the
\* updates whose call completed without raising: for every source the harmful
\* articles from it whose source write completed, for every keyword the
\* harmful articles carrying it whose keyword write completed.
C10_NoCompletedUpdateLost ==
    /\ \A k \in AllSources :
          CountIn(source_profiles, k) = Cardinality(OfSource(k, SourceWritten))
    /\ \A w \in AllKeywords :
          CountIn(keyword_trends, w) = Cardinality(Carrying(w, KeywordsWritten))

\* both requests are between their two writes for an article, and have
\* flagged the same source
C10_Witness ==
    /\ \A r \in Requests : pc[r] = "persist_kw" /\ idx[r] \in SourceWritten(r)
    /\ \E k \in DOMAIN source_profiles :
          /\ source_profiles[k] = 2
          /\ \A r \in Requests : SourceKey(hits[r][idx[r]].source) = k
    /\ \E w \in DOMAIN keyword_trends : keyword_trends[w] >= 1

=============================================================================
